---- MODULE Spec2Model ----
(***************************************************************************)
(* Model of src/backup.py: one run of the backup script.                   *)
(*   select (filter_previous_day_files) -> archive (create_backup)         *)
(*   -> prune (clean_old_backups) -> upload (upload_to_s3)                 *)
(* The file systems and the bucket are state; every call of                *)
(* datetime.date.today() reads the clock, which may pass midnight between  *)
(* two statements of the script.                                           *)
(*                                                                         *)
(* File names are sequences of atoms ("db_2024_05_01.bak" is               *)
(* <<"db","_","2024","_","05","_","0","1",".bak">>), so that substring,    *)
(* suffix and date formatting are computed and not assumed.  Dates are     *)
(* days of May 2024, written as the day number.                            *)
(***************************************************************************)
EXTENDS Integers, Sequences, FiniteSets, TLC

VARIABLES
    pc,                  \* position in the module-level script
    today,               \* the clock: what datetime.date.today() returns now
    ticks,               \* midnights passed since the run started
    source,              \* source directory: name -> [content, mtime]
    dest,                \* destination root: name -> [kind, members]
    bucket,              \* S3 bucket: key -> members of the uploaded archive
    s3_folder,           \* line 96
    yesterday,           \* line 12, the date token of the Selector
    previous_day_files,  \* line 102
    date_name,           \* line 38
    copied,              \* number of iterations of the loop of line 46 completed
    zip_file,            \* line 106
    allowed_date,        \* line 109
    log,                 \* the messages printed so far (their fixed parts)
    faults,              \* the places where the environment raised in this run
    called,              \* the stages invoked so far
    selectedOn,          \* history: the clock when the Selector ran
    source0,             \* history: the source directory before the run
    dest0,               \* history: the destination root before the run
    bucket0,             \* history: the bucket before the run
    destBeforePrune      \* history: the destination root when pruning started

vars == <<pc, today, ticks, source, dest, bucket, s3_folder, yesterday,
          previous_day_files, date_name, copied, zip_file, allowed_date, log,
          faults, called, selectedOn, source0, dest0, bucket0, destBeforePrune>>

MaxTicks == 1     \* midnights that may pass during one run
MaxFiles == 2     \* entries of the source directory

-----------------------------------------------------------------------------
(* Values *)

None == <<>>

NoMembers == [n \in {} |-> [content |-> "", mtime |-> 0]]

Put(f, k, v) == [x \in (DOMAIN f) \cup {k} |-> IF x = k THEN v ELSE f[x]]

Remove(f, K) == [x \in (DOMAIN f) \ K |-> f[x]]

Digit(n) == <<"0", "1", "2", "3", "4", "5", "6", "7", "8", "9">>[n + 1]

\* strftime('%Y<sep>%m<sep>%d') of day d of May 2024
strftime(d, sep) == <<"2024", sep, "05", sep, Digit(d \div 10), Digit(d % 10)>>

\* datetime.date.today() - datetime.timedelta(days=1), read at clock value now
Yesterday(now) == now - 1

\* `t in s` of Python strings
Contains(s, t) ==
    \E i \in 1..(Len(s) - Len(t) + 1) : SubSeq(s, i, i + Len(t) - 1) = t

\* s.endswith(t)
EndsWith(s, t) ==
    /\ Len(s) >= Len(t)
    /\ SubSeq(s, Len(s) - Len(t) + 1, Len(s)) = t

DestinationPath == << <<"D:">>, <<"CloudBackup">>, <<"Zip">>, <<"kyc">> >>

\* os.path.join(path, name)
Join(path, name) == Append(path, name)

\* os.path.basename(path)
Basename(path) == path[Len(path)]

\* the path shutil.make_archive(base, 'zip', ...) writes and returns
ArchivePath(base) ==
    SubSeq(base, 1, Len(base) - 1) \o <<Basename(base) \o <<".zip">>>>

\* f"{s3_folder}/{file_name}"
S3Key(folder, file_name) == folder \o <<"/">> \o file_name

Dir(members) == [kind |-> "dir", members |-> members]

File(members) == [kind |-> "file", members |-> members]

IsDir(fs, n) == n \in DOMAIN fs /\ fs[n].kind = "dir"

IsFile(fs, n) == n \in DOMAIN fs /\ fs[n].kind = "file"

-----------------------------------------------------------------------------
(* The environment the run starts in *)

Fresh == [content |-> "v1", mtime |-> 1]

Stale == [content |-> "v0", mtime |-> 0]

Bak(stem, d) == <<stem, "_">> \o strftime(d, "_") \o <<".bak">>

SourceNames ==
    { Bak("db", 1), Bak("kyc", 1), Bak("db", 2),
      <<"db", "_">> \o strftime(1, "_") \o <<".log">>,
      <<"db", "_">> \o strftime(1, "-") \o <<".bak">>,
      <<"db", "_">> \o strftime(1, "_") \o <<".bak", ".old">> }

SourceDirs ==
    { [n \in S |-> Fresh] : S \in {T \in SUBSET SourceNames : Cardinality(T) <= MaxFiles} }

LeftOver == (Bak("db", 1) :> Stale) @@ (Bak("old", 1) :> Stale)

OldDirName == <<"2024", "-", "04", "-", "3", "0">>

Absent == [kind |-> "absent", members |-> NoMembers]

DestRoots ==
    { LET all == (strftime(1, "-") :> a) @@ (strftime(2, "-") :> b)
                 @@ (OldDirName :> c) @@ (strftime(1, "-") \o <<".zip">> :> z)
      IN  Remove(all, {n \in DOMAIN all : all[n] = Absent}) :
        a \in {Absent, Dir(NoMembers), Dir(LeftOver), File(NoMembers)},
        b \in {Absent, Dir(NoMembers)},
        c \in {Absent, Dir(LeftOver)},
        z \in {Absent, File(LeftOver), Dir(NoMembers)} }

Buckets ==
    { [k \in {} |-> NoMembers],
      (S3Key(strftime(1, "-"), strftime(1, "-") \o <<".zip">>) :> LeftOver) }

Init ==
    /\ pc = "config"
    /\ today = 2
    /\ ticks = 0
    /\ source \in SourceDirs
    /\ dest \in DestRoots
    /\ bucket \in Buckets
    /\ s3_folder = None
    /\ yesterday = None
    /\ previous_day_files = <<>>
    /\ date_name = None
    /\ copied = 0
    /\ zip_file = None
    /\ allowed_date = None
    /\ log = {}
    /\ faults = {}
    /\ called = {}
    /\ selectedOn = 0
    /\ source0 = source
    /\ dest0 = dest
    /\ bucket0 = bucket
    /\ destBeforePrune = dest

-----------------------------------------------------------------------------
(* filter_previous_day_files, lines 8-16 *)

\* the orders os.listdir may return the entries in
Listings(S) ==
    {s \in [1..Cardinality(S) -> S] : \A i, j \in DOMAIN s : s[i] = s[j] => i = j}

filter_hyphen_token(listing, now) ==
    SelectSeq(listing,
              LAMBDA file : /\ Contains(file, strftime(Yesterday(now), "-"))
                            /\ EndsWith(file, <<".bak">>))

filter_previous_day_files(listing, now) ==
    SelectSeq(listing,
              LAMBDA file : /\ Contains(file, strftime(Yesterday(now), "_"))
                            /\ EndsWith(file, <<".bak">>))

-----------------------------------------------------------------------------
(* create_backup, lines 32-63 *)

\* shutil.copy2: content and modification time of the source file
copy2(src) == [content |-> src.content, mtime |-> src.mtime]

\* the staging directory after the first k iterations of the loop of line 46
RECURSIVE CopyFiles(_, _, _, _)
CopyFiles(members, files, src, k) ==
    IF k = 0 THEN members
    ELSE Put(CopyFiles(members, files, src, k - 1), files[k], copy2(src[files[k]]))

\* the statements of create_backup inside `try:` (line 44): an exception
\* raised at one of them reaches `except Exception` (line 61)
copy_outside_try(site) == site \in {"pack", "rmtree"}

create_backup_try(site) == site \in {"copy", "pack", "rmtree"}

Outcome(fs, result, msgs, fault, n, name) ==
    [dest |-> fs, result |-> result,
     log |-> msgs \cup (IF fault # {} /\ create_backup_try(CHOOSE s \in fault : TRUE)
                        THEN {"Error during backup creation"} ELSE {}),
     faults |-> fault, copied |-> n, date_name |-> name,
     raised |-> fault # {} /\ ~create_backup_try(CHOOSE s \in fault : TRUE)]

create_backup(files, src, fs, now) ==
    LET name       == strftime(Yesterday(now), "-")
        backup_dir == Join(DestinationPath, name)
        zip_path   == ArchivePath(backup_dir)
        zip_name   == Basename(zip_path)
        \* line 42: os.makedirs(backup_dir, exist_ok=True)
        made       == IF name \in DOMAIN fs THEN fs ELSE Put(fs, name, Dir(NoMembers))
        staged(k)  == Put(made, name, Dir(CopyFiles(made[name].members, files, src, k)))
        copiedMsg(k) == IF k > 0 THEN {"Copied"} ELSE {}
        all        == Len(files)
        packed     == Put(staged(all), zip_name, File(staged(all)[name].members))
    IN
    \* line 42 raises: the name is taken by a file, or the root is not writable
    { Outcome(fs, None, {}, {"makedirs"}, 0, name) }
    \cup
    (IF IsFile(fs, name) THEN {} ELSE
       \* line 49 raises at iteration k + 1
       { Outcome(staged(k), None, copiedMsg(k), {"copy"}, k, name) : k \in 0..(all - 1) }
       \cup
       \* line 53 raises, leaving no archive or a truncated one
       { Outcome(staged(all), None, copiedMsg(all), {"pack"}, all, name) }
       \cup
       (IF IsDir(fs, zip_name) THEN {} ELSE
          { Outcome(Put(staged(all), zip_name, File(NoMembers)), None,
                    copiedMsg(all), {"pack"}, all, name) }
          \cup
          \* line 57 raises
          { Outcome(packed, None, copiedMsg(all) \cup {"Backup Complete"},
                    {"rmtree"}, all, name) }
          \cup
          \* line 60
          { Outcome(Remove(packed, {name}), zip_path,
                    copiedMsg(all) \cup {"Backup Complete", "Removed temporary folder"},
                    {}, all, name) }))

-----------------------------------------------------------------------------
(* clean_old_backups, lines 18-30 *)

prune_every_folder(fs, allowed) ==
    {folder \in DOMAIN fs : fs[folder].kind = "dir"}

\* line 26: the folders the loop removes
PruneTargets(fs, allowed) ==
    {folder \in DOMAIN fs : fs[folder].kind = "dir" /\ folder # allowed}

\* os.listdir yields any order and os.listdir or shutil.rmtree may raise: the
\* folders removed before the exception are any strict subset of the targets
clean_old_backups(fs, allowed) ==
    { [dest |-> Remove(fs, PruneTargets(fs, allowed)),
       log |-> IF PruneTargets(fs, allowed) # {} THEN {"Deleted old backup folder"} ELSE {},
       faults |-> {}] }
    \cup
    { [dest |-> Remove(fs, gone),
       log |-> (IF gone # {} THEN {"Deleted old backup folder"} ELSE {})
               \cup {"Error during old backup cleanup"},
       faults |-> {"prune"}] :
        gone \in {g \in SUBSET PruneTargets(fs, allowed) :
                    g # PruneTargets(fs, allowed) \/ g = {}} }

-----------------------------------------------------------------------------
(* upload_to_s3, lines 65-89 *)

upload_to_s3(file_path, folder, fs, bk) ==
    \* line 70 raises: outside the try
    { [bucket |-> bk, log |-> {}, faults |-> {"client"}, raised |-> TRUE] }
    \cup
    (IF file_path = None
     THEN \* line 78: os.path.basename(None) raises TypeError
          { [bucket |-> bk, log |-> {"Error during S3 upload"},
             faults |-> {"upload"}, raised |-> FALSE] }
     ELSE IF ~IsFile(fs, Basename(file_path))
     THEN { [bucket |-> bk, log |-> {"The file was not found"},
             faults |-> {"upload"}, raised |-> FALSE] }
     ELSE { [bucket |-> Put(bk, S3Key(folder, Basename(file_path)),
                            fs[Basename(file_path)].members),
             log |-> {"File uploaded successfully"}, faults |-> {}, raised |-> FALSE] }
          \cup
          { [bucket |-> bk, log |-> {m}, faults |-> {"upload"}, raised |-> FALSE] :
              m \in {"Credentials not available", "Error during S3 upload"} })

-----------------------------------------------------------------------------
(* The module-level script, lines 91-116 *)

select_always_continues(files) == "prune"

\* line 104: `if previous_day_files:`
AfterSelect(files) == IF files # <<>> THEN "archive" ELSE "done"

upload_always(result) == TRUE

\* line 113: `if zip_file:`
ShouldUpload(result) == result # None

\* lines 92-99
Configure ==
    /\ pc = "config"
    /\ s3_folder' = strftime(Yesterday(today), "-")
    /\ pc' = "select"
    /\ UNCHANGED <<today, ticks, source, dest, bucket, yesterday, previous_day_files,
                   date_name, copied, zip_file, allowed_date, log, faults, called,
                   selectedOn, source0, dest0, bucket0, destBeforePrune>>

\* lines 102-104 and 115-116
Select ==
    /\ pc = "select"
    /\ called' = called \cup {"Selector"}
    /\ selectedOn' = today
    /\ yesterday' = strftime(Yesterday(today), "_")
    /\ \/ \* os.listdir raises (line 14): nothing catches it
          /\ faults' = faults \cup {"listdir"}
          /\ pc' = "crashed"
          /\ UNCHANGED <<previous_day_files, log>>
       \/ \E listing \in Listings(DOMAIN source) :
            /\ previous_day_files' = filter_previous_day_files(listing, today)
            /\ pc' = AfterSelect(previous_day_files')
            /\ log' = IF previous_day_files' # <<>> THEN log
                      ELSE log \cup {"No files found"}
            /\ UNCHANGED faults
    /\ UNCHANGED <<today, ticks, source, dest, bucket, s3_folder, date_name, copied,
                   zip_file, allowed_date, source0, dest0, bucket0, destBeforePrune>>

\* line 106
Archive ==
    /\ pc = "archive"
    /\ called' = called \cup {"Archiver"}
    /\ \E o \in create_backup(previous_day_files, source, dest, today) :
         /\ dest' = o.dest
         /\ zip_file' = o.result
         /\ log' = log \cup o.log
         /\ faults' = faults \cup o.faults
         /\ copied' = o.copied
         /\ date_name' = o.date_name
         /\ pc' = IF o.raised THEN "crashed" ELSE "prune"
    /\ UNCHANGED <<today, ticks, source, bucket, s3_folder, yesterday,
                   previous_day_files, allowed_date, selectedOn, source0, dest0,
                   bucket0, destBeforePrune>>

\* lines 109-113
Prune ==
    /\ pc = "prune"
    /\ called' = called \cup {"Pruner"}
    /\ allowed_date' = strftime(Yesterday(today), "-")
    /\ destBeforePrune' = dest
    /\ \E o \in clean_old_backups(dest, allowed_date') :
         /\ dest' = o.dest
         /\ log' = log \cup o.log
         /\ faults' = faults \cup o.faults
    /\ pc' = IF ShouldUpload(zip_file) THEN "upload" ELSE "done"
    /\ UNCHANGED <<today, ticks, source, bucket, s3_folder, yesterday,
                   previous_day_files, date_name, copied, zip_file, selectedOn,
                   source0, dest0, bucket0>>

\* line 114
Upload ==
    /\ pc = "upload"
    /\ called' = called \cup {"Uploader"}
    /\ \E o \in upload_to_s3(zip_file, s3_folder, dest, bucket) :
         /\ bucket' = o.bucket
         /\ log' = log \cup o.log
         /\ faults' = faults \cup o.faults
         /\ pc' = IF o.raised THEN "crashed" ELSE "done"
    /\ UNCHANGED <<today, ticks, source, dest, s3_folder, yesterday,
                   previous_day_files, date_name, copied, zip_file, allowed_date,
                   selectedOn, source0, dest0, bucket0, destBeforePrune>>

\* midnight passes while the script runs
Midnight ==
    /\ pc \in {"config", "select", "archive", "prune", "upload"}
    /\ ticks < MaxTicks
    /\ today' = today + 1
    /\ ticks' = ticks + 1
    /\ UNCHANGED <<pc, source, dest, bucket, s3_folder, yesterday, previous_day_files,
                   date_name, copied, zip_file, allowed_date, log, faults, called,
                   selectedOn, source0, dest0, bucket0, destBeforePrune>>

Next == Configure \/ Select \/ Archive \/ Prune \/ Upload \/ Midnight

Spec == Init /\ [][Next]_vars

-----------------------------------------------------------------------------
(* Properties *)

Selected == {previous_day_files[i] : i \in DOMAIN previous_day_files}

SelectorReturned == "Selector" \in called /\ "listdir" \notin faults

\* name = prefix . token . rest  and  name = stem . ".bak"
CarriesToken(name, d) ==
    \E i \in 0..Len(name) : \E j \in 1..(Len(name) + 1) :
        name = SubSeq(name, 1, i) \o strftime(d, "_") \o SubSeq(name, j, Len(name))

IsBak(name) ==
    Len(name) > 0 /\ name = SubSeq(name, 1, Len(name) - 1) \o <<".bak">>

\* C1: once the Selector has returned, its result holds exactly the entries of
\* the source directory whose name contains the reference date (the day before
\* the Selector ran) formatted YYYY_MM_DD and ends with ".bak", each once, and
\* the source directory is as it was before the run.
C1_FilterExact ==
    SelectorReturned =>
        /\ Selected = {f \in DOMAIN source0 : CarriesToken(f, selectedOn - 1) /\ IsBak(f)}
        /\ Len(previous_day_files) = Cardinality(Selected)
        /\ source = source0

C1_Witness ==
    /\ SelectorReturned
    /\ Selected # {}
    /\ Selected # DOMAIN source

\* C2: when the Selector returns no file, no other stage is ever invoked, the
\* destination root and the bucket are as they were before the run, and the
\* run has ended reporting that there is nothing to back up.
C2_EmptyShortCircuits ==
    (SelectorReturned /\ previous_day_files = <<>>) =>
        /\ called = {"Selector"}
        /\ dest = dest0
        /\ bucket = bucket0
        /\ pc = "done"
        /\ "No files found" \in log

C2_Witness ==
    /\ SelectorReturned
    /\ previous_day_files = <<>>
    /\ DOMAIN source # {}
    /\ IsDir(dest, OldDirName)
    /\ pc = "done"

\* C3: a pruning pass leaves the directory named exactly the allowed date in
\* place and untouched, and when nothing raised during the pass no other
\* top-level directory is left under the destination root.
C3_PruneKeepsAllowedOnly ==
    "Pruner" \in called =>
        /\ IsDir(destBeforePrune, allowed_date) =>
              /\ IsDir(dest, allowed_date)
              /\ dest[allowed_date] = destBeforePrune[allowed_date]
        /\ "prune" \notin faults =>
              \A n \in DOMAIN dest : dest[n].kind = "dir" => n = allowed_date

C3_Witness ==
    /\ "Pruner" \in called
    /\ "prune" \notin faults
    /\ IsDir(dest, allowed_date)
    /\ IsDir(destBeforePrune, OldDirName)
    /\ OldDirName \notin DOMAIN dest

\* C4: the Uploader is invoked only with the archive path the Archiver
\* returned in this run; an exception during copying or packaging makes
\* create_backup return None, and a run whose Archiver returned None leaves
\* the bucket as it was.
C4_UploadOnlyWithArchive ==
    /\ "Uploader" \in called => ("Archiver" \in called /\ zip_file # None)
    /\ faults \cap {"copy", "pack"} # {} => zip_file = None
    /\ zip_file = None => bucket = bucket0

C4_Witness ==
    /\ pc = "done"
    /\ "pack" \in faults
    /\ "Pruner" \in called
    /\ "Uploader" \notin called
    /\ bucket = bucket0

\* C5 as stated: the run never terminates with an unhandled exception.
C5_NeverUnhandled == pc # "crashed"

\* C5 amended: an exception raised while copying, packing or removing the
\* staging directory, during pruning, or by the upload call is caught by its
\* stage and logged, and the following stages still run as the control flow
\* says; the run terminates with an unhandled exception only when listing the
\* source directory, creating the staging directory or creating the storage
\* client raises.
C5_CaughtInsideTryOnly ==
    /\ pc = "crashed" => faults \cap {"listdir", "makedirs", "client"} # {}
    /\ faults \cap {"copy", "pack", "rmtree"} # {} =>
          /\ "Error during backup creation" \in log
          /\ pc = "prune" \/ "Pruner" \in called
    /\ "prune" \in faults =>
          /\ "Error during old backup cleanup" \in log
          /\ IF zip_file = None THEN pc = "done"
             ELSE pc = "upload" \/ "Uploader" \in called
    /\ "upload" \in faults =>
          /\ pc = "done"
          /\ log \cap {"The file was not found", "Credentials not available",
                       "Error during S3 upload"} # {}

C5_Witness ==
    /\ pc = "done"
    /\ "rmtree" \in faults
    /\ "prune" \in faults
    /\ "Deleted old backup folder" \in log

\* C6: clean_old_backups is never invoked unless the archive of this run
\* exists: create_backup returned its path and the file is in the destination
\* root when pruning starts.
C6_PruneOnlyAfterArchive ==
    "Pruner" \in called =>
        /\ zip_file # None
        /\ IsFile(destBeforePrune, Basename(zip_file))

\* C7: the date token, the staging and archive name, the allowed date and the
\* S3 folder of one run all come from one reference date D: the archive is
\* named D and holds only files carrying the token of D, the allowed date is
\* D, and the uploaded key is D/D.zip.
C7_OneReferenceDate ==
    LET D == strftime(selectedOn - 1, "-") IN
    /\ "Archiver" \in called => (date_name = D /\ s3_folder = D)
    /\ "Pruner" \in called => allowed_date = D
    /\ "Backup Complete" \in log =>
          \A f \in DOMAIN dest[D \o <<".zip">>].members : CarriesToken(f, selectedOn - 1)
    /\ "File uploaded successfully" \in log =>
          /\ S3Key(D, D \o <<".zip">>) \in DOMAIN bucket
          /\ \A k \in DOMAIN bucket :
                (k \notin DOMAIN bucket0 \/ bucket[k] # bucket0[k])
                    => k = S3Key(D, D \o <<".zip">>)

\* C8: when every copy succeeded, what is packed (the members of the archive)
\* is exactly the selected files, each with the content and the modification
\* time of its source, whatever the destination root held before the run.
C8_StagingExactlySelected ==
    "Backup Complete" \in log =>
        dest[date_name \o <<".zip">>].members = [f \in Selected |-> source[f]]

\* C9: when a copy raises, create_backup returns None, nothing is uploaded,
\* the run goes on to prune, and the staging directory named after the
\* reference date keeps the files copied before the exception, also after the
\* pruning pass.
C9_PartialCopySurvivesPrune ==
    "copy" \in faults =>
        /\ zip_file = None
        /\ "Uploader" \notin called
        /\ pc = "prune" \/ ("Pruner" \in called /\ pc = "done")
        /\ IsDir(dest, date_name)
        /\ \A i \in 1..copied :
              /\ previous_day_files[i] \in DOMAIN dest[date_name].members
              /\ dest[date_name].members[previous_day_files[i]]
                    = source[previous_day_files[i]]

\* C10: a pruning pass leaves every top-level non-directory entry as it was;
\* whenever the Uploader is invoked the archive create_backup returned is
\* still in the destination root; and after a run in which no stage failed the
\* destination root holds the archive of the run and no top-level directory.
C10_PruneTouchesDirectoriesOnly ==
    /\ "Pruner" \in called =>
          \A n \in DOMAIN destBeforePrune :
              destBeforePrune[n].kind = "file" =>
                  (n \in DOMAIN dest /\ dest[n] = destBeforePrune[n])
    /\ "Uploader" \in called => IsFile(dest, Basename(zip_file))
    /\ (pc = "done" /\ faults = {} /\ "Uploader" \in called) =>
          /\ IsFile(dest, date_name \o <<".zip">>)
          /\ \A n \in DOMAIN dest : dest[n].kind # "dir"

====
